---- MODULE Spec2Model ----
(***************************************************************************)
(* tui-chat (src/src/lib.rs): the ChatArea scrollback widget and the       *)
(* InputArea multi-line editor, modelled as state machines over their       *)
(* public methods.                                                          *)
(*                                                                          *)
(* A Rust String is a sequence of scalar values (chars); every char is a    *)
(* one-character TLA+ string, except the multi-byte ones, which are named   *)
(* by their code point.  Offsets into a String are BYTE offsets, as in the  *)
(* source, so the model keeps len_utf8 and converts between bytes and       *)
(* chars wherever the source does.                                          *)
(***************************************************************************)
EXTENDS Integers, Sequences, FiniteSets, TLC

VARIABLES
    chat_area,    \* ChatArea  {messages, message_lines, offset, auto_scroll}
    input_area,   \* InputArea {buffer, cursor, offset}
    area,         \* the Rect of the most recent ChatArea::render that laid
                  \* the lines out (the one message_lines was computed for)
    should_quit,  \* ChatApp.should_quit
    cursor_pos,   \* ChatApp.cursor_pos: NONE or <<x, y>>
    pc,           \* where the loop of main is: "draw", "read", "check", "done"
    panicked,     \* the process has panicked (an arithmetic or slicing fault)
    last          \* the most recent call: its name, argument, return value
                  \* and the receiver as it was when the call was made

vars == <<chat_area, input_area, area, should_quit, cursor_pos, pc, panicked, last>>
\* The part of ChatApp and of main a call on one widget leaves alone.
app_vars == <<should_quit, cursor_pos, pc>>

----------------------------------------------------------------------------
(* Bounds of the model.                                                    *)

\* SpecEdit: longest buffer, in chars.
MaxLen == 4
\* SpecView: most text chars and most line breaks in the buffer.
MaxText == 1
MaxNl == 10
\* SpecView: largest InputArea offset a scroll call may produce (a wrapped or
\* a maximal offset apart).
MaxOffset == 3
\* SpecChat: most messages in the scrollback.
MaxMsgs == 4
\* SpecScroll: most messages in the scrollback.
MaxScrollMsgs == 2
\* SpecMain: longest buffer, in chars, and most messages.
MaxAppLen == 2
MaxAppMsgs == 2
\* SpecGuard: longest buffer, in chars.
MaxGuardLen == 1
\* SpecLines: longest buffer calculate_display_lines is applied to.
MaxLineLen == 5

\* The width of usize in the modelled build, and usize::MAX.
UsizeBits == 16
UsizeMax == 2^UsizeBits - 1

----------------------------------------------------------------------------
(* Chars and Strings.                                                      *)

NL == "\n"
\* U+00E9 (2 bytes in UTF-8) and U+20AC (3 bytes).
EACUTE == "U+00E9"
EURO == "U+20AC"

len_utf8(ch) == IF ch = EACUTE THEN 2 ELSE IF ch = EURO THEN 3 ELSE 1

Min(a, b) == IF a <= b THEN a ELSE b
Max(a, b) == IF a >= b THEN a ELSE b
saturating_sub(a, b) == IF a >= b THEN a - b ELSE 0

\* String::len: the length in bytes.
RECURSIVE len(_)
len(s) == IF s = <<>> THEN 0 ELSE len_utf8(Head(s)) + len(Tail(s))

\* str::char_indices: the byte offset at which each char starts.
RECURSIVE char_indices_from(_, _)
char_indices_from(s, pos) ==
    IF s = <<>> THEN <<>>
    ELSE <<pos>> \o char_indices_from(Tail(s), pos + len_utf8(Head(s)))
char_indices(s) == char_indices_from(s, 0)

\* The set of byte offsets at which a char starts.
char_starts(s) == LET ci == char_indices(s) IN {ci[i] : i \in 1..Len(s)}

is_char_boundary(s, idx) == idx = len(s) \/ idx \in char_starts(s)

\* The number of chars that start before byte offset idx.
chars_before(s, idx) == Cardinality(char_starts(s) \cap 0..(idx - 1))

\* s[from..to] for byte offsets: defined when both are char boundaries and
\* from <= to; the source panics otherwise.
slice_ok(s, from, to) ==
    from <= to /\ is_char_boundary(s, from) /\ is_char_boundary(s, to)
slice(s, from, to) == SubSeq(s, chars_before(s, from) + 1, chars_before(s, to))

\* String::insert(idx, ch); panics unless idx is a char boundary.
insert(s, idx, ch) ==
    LET k == chars_before(s, idx)
    IN  SubSeq(s, 1, k) \o <<ch>> \o SubSeq(s, k + 1, Len(s))

\* String::remove(idx); panics unless a char starts at idx.
remove_ok(s, idx) == idx \in char_starts(s)
remove(s, idx) ==
    LET k == chars_before(s, idx)
    IN  SubSeq(s, 1, k) \o SubSeq(s, k + 2, Len(s))

count_nl(s) == Cardinality({i \in 1..Len(s) : s[i] = NL})

\* str::split('\n'): always at least one piece.
RECURSIVE split(_)
split(s) ==
    IF \A i \in 1..Len(s) : s[i] # NL
    THEN <<s>>
    ELSE LET i == CHOOSE j \in 1..Len(s) :
                      s[j] = NL /\ \A k \in 1..(j - 1) : s[k] # NL
         IN  <<SubSeq(s, 1, i - 1)>> \o split(SubSeq(s, i + 1, Len(s)))

\* str::lines(): split on '\n', a trailing empty piece dropped.
lines_of(s) ==
    LET p == split(s)
    IN  IF p[Len(p)] = <<>> THEN SubSeq(p, 1, Len(p) - 1) ELSE p

\* str::replace('\n', "\n> ")
RECURSIVE replace_nl(_)
replace_nl(s) ==
    IF s = <<>> THEN <<>>
    ELSE (IF Head(s) = NL THEN <<NL, ">", " ">> ELSE <<Head(s)>>) \o replace_nl(Tail(s))

\* format!("> {}", buffer.replace('\n', "\n> "))
full_display(buffer) == <<">", " ">> \o replace_nl(buffer)

\* The sum of lines[i].len() + 1 over the first n pieces.
RECURSIVE line_start(_, _)
line_start(lines, n) ==
    IF n = 0 THEN 0 ELSE line_start(lines, n - 1) + len(lines[n]) + 1

----------------------------------------------------------------------------
(* InputArea.                                                              *)

MAX_DISPLAY_LINES == 10

\* InputArea::new
InputArea_new == [buffer |-> <<>>, cursor |-> 0, offset |-> 0]

\* The cursor insert_char inserts at: a stale cursor is clamped first.
clamped_cursor(ia) ==
    IF ia.cursor > len(ia.buffer) THEN len(ia.buffer) ELSE ia.cursor

\* InsertChar panics when String::insert does.
insert_char_ok(ia) == is_char_boundary(ia.buffer, clamped_cursor(ia))
\* The slip of advancing the cursor by one byte whatever the char.
insert_char_one_byte(ia, ch) ==
    [ia EXCEPT !.buffer = insert(ia.buffer, clamped_cursor(ia), ch),
               !.cursor = clamped_cursor(ia) + 1]
insert_char(ia, ch) ==
    [ia EXCEPT !.buffer = insert(ia.buffer, clamped_cursor(ia), ch),
               !.cursor = clamped_cursor(ia) + len_utf8(ch)]

\* The start of the char before the cursor: the last char index below it,
\* 0 when there is none (the scan of backspace and of cursor_left).
prev_char_start(ia) ==
    LET before == char_starts(ia.buffer) \cap 0..(ia.cursor - 1)
    IN  IF before = {} THEN 0
        ELSE CHOOSE i \in before : \A j \in before : j <= i

backspace_ok(ia) == ia.cursor > 0 => remove_ok(ia.buffer, prev_char_start(ia))
\* The slip of stepping the cursor back by one byte whatever the char.
backspace_one_byte(ia) ==
    IF ia.cursor > 0
    THEN [ia EXCEPT !.buffer = remove(ia.buffer, prev_char_start(ia)),
                    !.cursor = ia.cursor - 1]
    ELSE ia
backspace(ia) ==
    IF ia.cursor > 0
    THEN [ia EXCEPT !.buffer = remove(ia.buffer, prev_char_start(ia)),
                    !.cursor = prev_char_start(ia)]
    ELSE ia

\* The slip of stepping the cursor one byte whatever the char.
cursor_left_one_byte(ia) ==
    IF ia.cursor > 0 THEN [ia EXCEPT !.cursor = ia.cursor - 1] ELSE ia
cursor_left(ia) ==
    IF ia.cursor > 0 THEN [ia EXCEPT !.cursor = prev_char_start(ia)] ELSE ia

cursor_right(ia) ==
    IF ia.cursor < len(ia.buffer)
    THEN LET after == char_starts(ia.buffer) \ 0..ia.cursor
         IN  IF after # {}
             THEN [ia EXCEPT !.cursor = CHOOSE i \in after : \A j \in after : i <= j]
             ELSE [ia EXCEPT !.cursor = len(ia.buffer)]
    ELSE ia

\* The 0-based index of the first line whose byte span reaches the cursor,
\* or -1 when the loop of find_current_line_col ends without a break.
current_line_index(ia) ==
    LET lines == split(ia.buffer)
        hit == {i \in 0..(Len(lines) - 1) :
                   line_start(lines, i) + len(lines[i + 1]) >= ia.cursor}
    IN  IF hit = {} THEN -1 ELSE CHOOSE i \in hit : \A j \in hit : i <= j

find_current_line_col_ok(ia) ==
    current_line_index(ia) >= 0 =>
        slice_ok(ia.buffer,
                 line_start(split(ia.buffer), current_line_index(ia)), ia.cursor)
\* <<current_line, current_col>>, the column counted in chars.
find_current_line_col(ia) ==
    LET i == current_line_index(ia)
    IN  IF i < 0 THEN <<0, 0>>
        ELSE <<i, Len(slice(ia.buffer, line_start(split(ia.buffer), i), ia.cursor))>>

\* The slip of taking the column as a byte offset into the line above.
cursor_up_byte_col(ia) ==
    LET lines == split(ia.buffer)
        current_line == find_current_line_col(ia)[1]
        current_col == find_current_line_col(ia)[2]
    IN  IF current_line > 0
        THEN LET prev_line == lines[current_line]
                 new_col == Min(current_col, Len(prev_line))
                 prev_line_start == line_start(lines, current_line - 1)
             IN  [ia EXCEPT !.cursor = prev_line_start + new_col]
        ELSE ia
cursor_up(ia) ==
    LET lines == split(ia.buffer)
        current_line == find_current_line_col(ia)[1]
        current_col == find_current_line_col(ia)[2]
    IN  IF current_line > 0
        THEN LET prev_line == lines[current_line]
                 new_col == Min(current_col, Len(prev_line))
                 prev_line_start == line_start(lines, current_line - 1)
                 byte_offset == len(SubSeq(prev_line, 1, new_col))
             IN  [ia EXCEPT !.cursor = prev_line_start + byte_offset]
        ELSE ia

cursor_down(ia) ==
    LET lines == split(ia.buffer)
        current_line == find_current_line_col(ia)[1]
        current_col == find_current_line_col(ia)[2]
    IN  IF current_line < Len(lines) - 1
        THEN LET next_line == lines[current_line + 2]
                 new_col == Min(current_col, Len(next_line))
                 next_line_start == line_start(lines, current_line + 1)
                 byte_offset == len(SubSeq(next_line, 1, new_col))
             IN  [ia EXCEPT !.cursor = next_line_start + byte_offset]
        ELSE ia

newline(ia) == insert_char(ia, NL)

\* submit: the new InputArea; the String it returns is the old buffer.
\* The slip of clearing the buffer and leaving the cursor where it was.
submit_keeps_cursor(ia) == [buffer |-> <<>>, cursor |-> ia.cursor, offset |-> 0]
submit(ia) == [buffer |-> <<>>, cursor |-> 0, offset |-> 0]
submit_ret(ia) == ia.buffer

InputArea_scroll_up(ia, n) == [ia EXCEPT !.offset = saturating_sub(ia.offset, n)]

\* self.offset += lines: a debug build panics on overflow, a release build
\* wraps around.
InputArea_scroll_down_overflows(ia, n) == ia.offset + n > UsizeMax
InputArea_scroll_down(ia, n) ==
    [ia EXCEPT !.offset = (ia.offset + n) % (UsizeMax + 1)]

\* &self.buffer[..self.cursor] panics unless the cursor is a boundary.
calculate_display_index_ok(ia) == slice_ok(ia.buffer, 0, ia.cursor)
calculate_display_index(ia) ==
    2 + ia.cursor + count_nl(slice(ia.buffer, 0, ia.cursor)) * 2

\* The walk of calculate_cursor_line over display: the number of line breaks
\* before the first char that starts at or after the display index, or all of
\* them when there is none.
calculate_cursor_line(ia, display) ==
    LET display_index == calculate_display_index(ia)
        ci == char_indices(display)
        at == {i \in 1..Len(display) : ci[i] >= display_index}
        stop == IF at = {} THEN Len(display) + 1
                ELSE CHOOSE i \in at : \A j \in at : i <= j
    IN  count_nl(SubSeq(display, 1, stop - 1))

\* The slip of pulling the offset up to a cursor above the window and never
\* pushing it down to one below.
InputArea_render_no_push(ia) ==
    LET display == full_display(ia.buffer)
        total_lines == Len(lines_of(display))
        cursor_line == calculate_cursor_line(ia, display)
        max_offset == saturating_sub(total_lines, MAX_DISPLAY_LINES)
        scrolled == IF cursor_line < ia.offset THEN cursor_line ELSE ia.offset
    IN  [ia EXCEPT !.offset = Min(scrolled, max_offset)]
\* InputArea::render: what it does to the widget (the drawing is the
\* framework's).
InputArea_render(ia) ==
    LET display == full_display(ia.buffer)
        total_lines == Len(lines_of(display))
        cursor_line == calculate_cursor_line(ia, display)
        max_offset == saturating_sub(total_lines, MAX_DISPLAY_LINES)
        scrolled == IF cursor_line < ia.offset THEN cursor_line
                    ELSE IF cursor_line >= ia.offset + MAX_DISPLAY_LINES
                         THEN saturating_sub(cursor_line, MAX_DISPLAY_LINES - 1)
                         ELSE ia.offset
    IN  [ia EXCEPT !.offset = Min(scrolled, max_offset)]

\* (line_len as f32 / effective_width as f32).ceil() as usize
ceil_div(a, b) == (a + b - 1) \div b

RECURSIVE sum_wrapped(_, _)
sum_wrapped(lines, effective_width) ==
    IF lines = <<>> THEN 0
    ELSE Max(ceil_div(len(Head(lines)), effective_width), 1)
            + sum_wrapped(Tail(lines), effective_width)

\* The slip of reserving the 2 border columns and not the 2 of the prompt.
calculate_display_lines_borders_only(ia, width) ==
    LET effective_width == saturating_sub(width, 2)
    IN  IF effective_width = 0 THEN 2
        ELSE Min(sum_wrapped(split(ia.buffer), effective_width), MAX_DISPLAY_LINES) + 2
calculate_display_lines(ia, width) ==
    LET effective_width == saturating_sub(width, 4)
    IN  IF effective_width = 0 THEN 2
        ELSE Min(sum_wrapped(split(ia.buffer), effective_width), MAX_DISPLAY_LINES) + 2

----------------------------------------------------------------------------
(* textwrap::wrap, as ChatArea::render calls it (default options): the     *)
(* text is split on '\n', each line into words at its spaces, a word wider *)
(* than the line is broken, and the pieces are packed first-fit.  Every    *)
(* char of the model is one column wide.  Only the number of lines each    *)
(* message wraps to enters the state.                                      *)

\* The length of the longest prefix of s made of spaces (sp) or of no space.
RECURSIVE run(_, _)
run(s, sp) ==
    IF s = <<>> \/ ((Head(s) = " ") # sp) THEN 0 ELSE 1 + run(Tail(s), sp)

\* The words of a line: the width of each and of the spaces after it.
RECURSIVE find_words(_)
find_words(line) ==
    IF line = <<>> THEN <<>>
    ELSE LET w == run(line, FALSE)
             ws == run(SubSeq(line, w + 1, Len(line)), TRUE)
         IN  <<[width |-> w, whitespace |-> ws]>>
                 \o find_words(SubSeq(line, w + ws + 1, Len(line)))

\* A word wider than the line is broken into line-wide pieces; the spaces
\* stay with the last piece.
RECURSIVE break_words(_, _)
break_words(words, line_width) ==
    IF words = <<>> THEN <<>>
    ELSE IF Head(words).width > line_width
         THEN <<[width |-> line_width, whitespace |-> 0]>>
                  \o break_words(<<[Head(words) EXCEPT !.width = @ - line_width]>>
                                     \o Tail(words), line_width)
         ELSE <<Head(words)>> \o break_words(Tail(words), line_width)

\* wrap_first_fit: the number of line breaks it puts between the fragments;
\* width is the width of the line so far, fresh says no fragment is on it.
RECURSIVE first_fit_breaks(_, _, _, _)
first_fit_breaks(fragments, line_width, width, fresh) ==
    IF fragments = <<>> THEN 0
    ELSE LET f == Head(fragments)
             brk == width + f.width > line_width /\ ~fresh
         IN  (IF brk THEN 1 ELSE 0)
             + first_fit_breaks(Tail(fragments), line_width,
                                (IF brk THEN 0 ELSE width) + f.width + f.whitespace,
                                FALSE)

RECURSIVE sum_wrap(_, _)
sum_wrap(lines, line_width) ==
    IF lines = <<>> THEN 0
    ELSE 1 + first_fit_breaks(break_words(find_words(Head(lines)), line_width),
                              line_width, 0, TRUE)
           + sum_wrap(Tail(lines), line_width)

\* textwrap::wrap(text, width).len(), for width > 0
wrap_len(text, width) == sum_wrap(split(text), width)

----------------------------------------------------------------------------
(* ChatArea.                                                               *)

\* ChatArea::new
ChatArea_new ==
    [messages |-> <<>>, message_lines |-> <<>>, offset |-> 0, auto_scroll |-> TRUE]

\* The slip of appending without touching auto_scroll.
add_message_push_only(ca, msg) ==
    [ca EXCEPT !.messages = Append(ca.messages, msg)]
add_message(ca, msg) ==
    [ca EXCEPT !.messages = Append(ca.messages, msg), !.auto_scroll = TRUE]

ChatArea_scroll_up(ca, n) ==
    [ca EXCEPT !.offset = saturating_sub(ca.offset, n), !.auto_scroll = FALSE]

\* self.offset + lines: a debug build panics on overflow, a release build
\* wraps around.
ChatArea_scroll_down_overflows(ca, n) == ca.offset + n > UsizeMax
ChatArea_scroll_down(ca, n) ==
    LET content_length == Len(ca.message_lines)
        max_scroll == saturating_sub(content_length, 1)
        offset == Min((ca.offset + n) % (UsizeMax + 1), max_scroll)
    IN  [ca EXCEPT !.offset = offset,
                   !.auto_scroll = IF offset = max_scroll THEN TRUE ELSE @]

\* format!("{}: {}", msg.sender, msg.content)
content_of(msg) == msg.sender \o <<":", " ">> \o msg.content

\* The (message index, line index) pairs of messages i.. (0-based).
RECURSIVE wrapped_from(_, _, _)
wrapped_from(messages, i, visible_width) ==
    IF i >= Len(messages) THEN <<>>
    ELSE [j \in 1..wrap_len(content_of(messages[i + 1]), visible_width)
               |-> <<i, j - 1>>]
             \o wrapped_from(messages, i + 1, visible_width)

visible_width_of(a) == saturating_sub(a.width, 2)
visible_height_of(a) == saturating_sub(a.height, 2)

\* The slip of taking the last line, not the last page, as the bottom.
ChatArea_render_last_line(ca, a) ==
    IF visible_width_of(a) = 0 THEN ca
    ELSE LET message_lines == wrapped_from(ca.messages, 0, visible_width_of(a))
             max_offset == saturating_sub(Len(message_lines), 1)
         IN  [ca EXCEPT !.message_lines = message_lines,
                        !.offset = Min(IF ca.auto_scroll THEN max_offset ELSE @,
                                       max_offset)]
\* The slip of clamping the offset without following the bottom.
ChatArea_render_no_follow(ca, a) ==
    IF visible_width_of(a) = 0 THEN ca
    ELSE LET message_lines == wrapped_from(ca.messages, 0, visible_width_of(a))
             max_offset == saturating_sub(Len(message_lines), visible_height_of(a))
         IN  [ca EXCEPT !.message_lines = message_lines,
                        !.offset = Min(@, max_offset)]
\* ChatArea::render: what it does to the widget.
ChatArea_render(ca, a) ==
    IF visible_width_of(a) = 0 THEN ca
    ELSE LET message_lines == wrapped_from(ca.messages, 0, visible_width_of(a))
             total_lines == Len(message_lines)
             max_offset == saturating_sub(total_lines, visible_height_of(a))
         IN  [ca EXCEPT !.message_lines = message_lines,
                        !.offset = Min(IF ca.auto_scroll THEN max_offset ELSE @,
                                       max_offset)]

----------------------------------------------------------------------------
(* The calls.  Each action is one call of a public method; a call that      *)
(* panics leaves the receiver as it was and ends the process.               *)

NONE == "none"

Char == {"a", EACUTE, EURO, NL}
\* The chars SpecView types.
ViewChar == {EACUTE, NL}
\* The line counts scroll_up and scroll_down are called with.
Deltas == {1, 5, UsizeMax}
\* The messages add_message is called with.
User == <<"U", "s", "e", "r">>
AI == <<"A", "I">>
Msgs == {[sender |-> User, content |-> <<"a">>],
         [sender |-> AI, content |-> <<"a", "a", NL, "a">>]}
\* The areas ChatArea::render is called with: 0, 4 or 10 visible columns,
\* 1, 3 or 10 visible rows.
Areas == {[width |-> 2, height |-> 12], [width |-> 6, height |-> 3],
          [width |-> 12, height |-> 3], [width |-> 12, height |-> 5]}
\* The widths calculate_display_lines is called with.
Widths == {0, 4, 5, 6, 14}

\* ChatApp, as a record of its fields; app is the one of the state.
ChatApp_new ==
    [chat_area |-> ChatArea_new, input_area |-> InputArea_new,
     should_quit |-> FALSE, cursor_pos |-> NONE]
app ==
    [chat_area |-> chat_area, input_area |-> input_area,
     should_quit |-> should_quit, cursor_pos |-> cursor_pos]

\* "Hello! This is a simulated response."
Reply ==
    <<"H", "e", "l", "l", "o", "!", " ", "T", "h", "i", "s", " ", "i", "s", " ", "a", " ", "s", "i", "m", "u", "l", "a", "t", "e", "d", " ", "r", "e", "s", "p", "o", "n", "s", "e", ".">>

\* The slip of testing the text for emptiness without trimming it.
is_blank_untrimmed(s) == s = <<>>
\* input.trim().is_empty(): nothing but white space.
is_blank(s) == \A i \in 1..Len(s) : s[i] \in {" ", NL}

\* The slip of sending PageUp and PageDown to the input area.
on_key_pages_input(a, key) ==
    IF key.kind # "Press" THEN a
    ELSE IF key.code = "Enter"
    THEN IF "SHIFT" \in key.modifiers
         THEN [a EXCEPT !.input_area = newline(@)]
         ELSE LET input == submit_ret(a.input_area)
              IN  [a EXCEPT
                     !.input_area = submit(@),
                     !.chat_area =
                         IF ~is_blank(input)
                         THEN add_message(
                                  add_message(@, [sender |-> User, content |-> input]),
                                  [sender |-> AI, content |-> Reply])
                         ELSE @]
    ELSE IF key.code = "PageUp"
    THEN [a EXCEPT !.input_area = InputArea_scroll_up(@, 5)]
    ELSE IF key.code = "PageDown"
    THEN [a EXCEPT !.input_area = InputArea_scroll_down(@, 5)]
    ELSE IF /\ key.code = "Esc" \/ (key.code = "Char" /\ key.ch = "c")
            /\ "CONTROL" \in key.modifiers
    THEN [a EXCEPT !.should_quit = TRUE]
    ELSE IF key.code = "Char" THEN [a EXCEPT !.input_area = insert_char(@, key.ch)]
    ELSE IF key.code = "Backspace" THEN [a EXCEPT !.input_area = backspace(@)]
    ELSE IF key.code = "Left" THEN [a EXCEPT !.input_area = cursor_left(@)]
    ELSE IF key.code = "Right" THEN [a EXCEPT !.input_area = cursor_right(@)]
    ELSE IF key.code = "Up" THEN [a EXCEPT !.input_area = cursor_up(@)]
    ELSE IF key.code = "Down" THEN [a EXCEPT !.input_area = cursor_down(@)]
    ELSE a
\* ChatApp::on_key: the arms of the match, in their order.
on_key(a, key) ==
    IF key.kind # "Press" THEN a
    ELSE IF key.code = "Enter"
    THEN IF "SHIFT" \in key.modifiers
         THEN [a EXCEPT !.input_area = newline(@)]
         ELSE LET input == submit_ret(a.input_area)
              IN  [a EXCEPT
                     !.input_area = submit(@),
                     !.chat_area =
                         IF ~is_blank(input)
                         THEN add_message(
                                  add_message(@, [sender |-> User, content |-> input]),
                                  [sender |-> AI, content |-> Reply])
                         ELSE @]
    ELSE IF key.code = "PageUp"
    THEN [a EXCEPT !.chat_area = ChatArea_scroll_up(@, 5)]
    ELSE IF key.code = "PageDown"
    THEN [a EXCEPT !.chat_area = ChatArea_scroll_down(@, 5)]
    ELSE IF /\ key.code = "Esc" \/ (key.code = "Char" /\ key.ch = "c")
            /\ "CONTROL" \in key.modifiers
    THEN [a EXCEPT !.should_quit = TRUE]
    ELSE IF key.code = "Char" THEN [a EXCEPT !.input_area = insert_char(@, key.ch)]
    ELSE IF key.code = "Backspace" THEN [a EXCEPT !.input_area = backspace(@)]
    ELSE IF key.code = "Left" THEN [a EXCEPT !.input_area = cursor_left(@)]
    ELSE IF key.code = "Right" THEN [a EXCEPT !.input_area = cursor_right(@)]
    ELSE IF key.code = "Up" THEN [a EXCEPT !.input_area = cursor_up(@)]
    ELSE IF key.code = "Down" THEN [a EXCEPT !.input_area = cursor_down(@)]
    ELSE a

\* Whether on_key returns: the outcomes the build can give.  The calls on
\* the input area panic as they do on their own; the sum of scroll_down
\* panics on overflow in a debug build and wraps in a release build.
on_key_returns(a, key) ==
    IF key.kind # "Press" THEN {TRUE}
    ELSE IF key.code = "Enter"
    THEN {"SHIFT" \in key.modifiers => insert_char_ok(a.input_area)}
    ELSE IF key.code = "PageUp" THEN {TRUE}
    ELSE IF key.code = "PageDown"
    THEN IF ChatArea_scroll_down_overflows(a.chat_area, 5) THEN {TRUE, FALSE}
         ELSE {TRUE}
    ELSE IF /\ key.code = "Esc" \/ (key.code = "Char" /\ key.ch = "c")
            /\ "CONTROL" \in key.modifiers
    THEN {TRUE}
    ELSE IF key.code = "Char" THEN {insert_char_ok(a.input_area)}
    ELSE IF key.code = "Backspace" THEN {backspace_ok(a.input_area)}
    ELSE IF key.code \in {"Up", "Down"} THEN {find_current_line_col_ok(a.input_area)}
    ELSE {TRUE}

\* Layout::vertical([Min(1), Length(input_height)]).split(size), for a
\* frame with room for both: the input panel takes the bottom rows.
chunks(size, input_height) ==
    <<[x |-> 0, y |-> 0, width |-> size.width,
       height |-> saturating_sub(size.height, input_height)],
      [x |-> 0, y |-> saturating_sub(size.height, input_height),
       width |-> size.width, height |-> Min(input_height, size.height)]>>

\* [&str]::join("\n")
RECURSIVE join(_)
join(lines) ==
    IF lines = <<>> THEN <<>>
    ELSE IF Len(lines) = 1 THEN lines[1]
    ELSE Head(lines) \o <<NL>> \o join(Tail(lines))

\* The number of chars after the last line break of s: current_col at the
\* end of s.
col_at_end(s) ==
    LET nls == {i \in 1..Len(s) : s[i] = NL}
    IN  Len(s) - (IF nls = {} THEN 0 ELSE CHOOSE i \in nls : \A j \in nls : j <= i)

\* ChatApp::calculate_cursor_pos: <<current_line, current_col>> as u16 at
\* the char that starts at display_index, or at the end of display when
\* that is display_index; NONE otherwise.
calculate_cursor_pos(display, display_index) ==
    LET ci == char_indices(display)
        at == {i \in 1..Len(display) : ci[i] = display_index}
        walked == IF at # {} THEN SubSeq(display, 1, (CHOOSE i \in at : TRUE) - 1)
                  ELSE display
    IN  IF at # {} \/ len(display) = display_index
        THEN <<count_nl(walked) % 2^16, col_at_end(walked) % 2^16>>
        ELSE NONE

\* The cursor position ChatApp::render computes for the input area it has
\* just rendered, relative to the inside of the input panel.
relative_cursor_pos(ia) ==
    LET lines == lines_of(full_display(ia.buffer))
        total_lines == Len(lines)
        max_offset == saturating_sub(total_lines, 10)
        offset == Min(ia.offset, max_offset)
        end == Min(offset + 10, total_lines)
        display == join(SubSeq(lines, offset + 1, end))
        display_index == calculate_display_index(ia)
        start_byte == line_start(lines, offset)
        adjusted_display_index == saturating_sub(display_index, start_byte)
    IN  calculate_cursor_pos(display, adjusted_display_index)

ChatApp_render_ok(a) == calculate_display_index_ok(a.input_area)
\* ChatApp::render on a frame of the given size.
ChatApp_render(a, size) ==
    LET input_height == calculate_display_lines(a.input_area, size.width)
        input_chunk == chunks(size, input_height)[2]
        rendered == InputArea_render(a.input_area)
        pos == relative_cursor_pos(rendered)
    IN  [a EXCEPT
           !.chat_area = ChatArea_render(@, chunks(size, input_height)[1]),
           !.input_area = rendered,
           !.cursor_pos = IF pos = NONE THEN NONE
                          ELSE <<input_chunk.x + 1 + pos[2],
                                 input_chunk.y + 1 + pos[1]>>]

Init ==
    /\ chat_area = ChatArea_new
    /\ input_area = InputArea_new
    /\ area = [width |-> 0, height |-> 0]
    /\ should_quit = FALSE
    /\ cursor_pos = NONE
    /\ pc = "draw"
    /\ panicked = FALSE
    /\ last = [op |-> "new", arg |-> NONE, pre |-> NONE, ret |-> NONE]

InputCall(op, arg, ok, new, ret) ==
    /\ ~panicked
    /\ input_area' = IF ok THEN new ELSE input_area
    /\ panicked' = ~ok
    /\ last' = [op |-> op, arg |-> arg, pre |-> input_area, ret |-> ret]

InsertChar(ch) ==
    /\ InputCall("insert_char", ch, insert_char_ok(input_area),
                 insert_char(input_area, ch), NONE)
    /\ UNCHANGED <<chat_area, area, app_vars>>

Newline ==
    /\ InputCall("newline", NONE, insert_char_ok(input_area),
                 newline(input_area), NONE)
    /\ UNCHANGED <<chat_area, area, app_vars>>

Backspace ==
    /\ InputCall("backspace", NONE, backspace_ok(input_area),
                 backspace(input_area), NONE)
    /\ UNCHANGED <<chat_area, area, app_vars>>

CursorLeft ==
    /\ InputCall("cursor_left", NONE, TRUE, cursor_left(input_area), NONE)
    /\ UNCHANGED <<chat_area, area, app_vars>>

CursorRight ==
    /\ InputCall("cursor_right", NONE, TRUE, cursor_right(input_area), NONE)
    /\ UNCHANGED <<chat_area, area, app_vars>>

CursorUp ==
    /\ InputCall("cursor_up", NONE, find_current_line_col_ok(input_area),
                 cursor_up(input_area), NONE)
    /\ UNCHANGED <<chat_area, area, app_vars>>

CursorDown ==
    /\ InputCall("cursor_down", NONE, find_current_line_col_ok(input_area),
                 cursor_down(input_area), NONE)
    /\ UNCHANGED <<chat_area, area, app_vars>>

Submit ==
    /\ InputCall("submit", NONE, TRUE, submit(input_area), submit_ret(input_area))
    /\ UNCHANGED <<chat_area, area, app_vars>>

InputScrollUp(n) ==
    /\ InputCall("InputArea::scroll_up", n, TRUE,
                 InputArea_scroll_up(input_area, n), NONE)
    /\ UNCHANGED <<chat_area, area, app_vars>>

InputScrollDown(n) ==
    /\ \/ /\ ~InputArea_scroll_down_overflows(input_area, n)
          /\ InputCall("InputArea::scroll_down", n, TRUE,
                       InputArea_scroll_down(input_area, n), NONE)
       \/ /\ InputArea_scroll_down_overflows(input_area, n)
          /\ InputCall("InputArea::scroll_down", n, FALSE, input_area, NONE)
       \/ /\ InputArea_scroll_down_overflows(input_area, n)
          /\ InputCall("InputArea::scroll_down", n, TRUE,
                       InputArea_scroll_down(input_area, n), NONE)
    /\ UNCHANGED <<chat_area, area, app_vars>>

InputRender ==
    /\ InputCall("InputArea::render", NONE, calculate_display_index_ok(input_area),
                 InputArea_render(input_area), NONE)
    /\ UNCHANGED <<chat_area, area, app_vars>>

CalculateDisplayLines(width) ==
    /\ InputCall("calculate_display_lines", width, TRUE, input_area,
                 calculate_display_lines(input_area, width))
    /\ UNCHANGED <<chat_area, area, app_vars>>

ChatCall(op, arg, ok, new) ==
    /\ ~panicked
    /\ chat_area' = IF ok THEN new ELSE chat_area
    /\ panicked' = ~ok
    /\ last' = [op |-> op, arg |-> arg, pre |-> chat_area, ret |-> NONE]
    /\ UNCHANGED input_area

AddMessage(msg) ==
    /\ ChatCall("add_message", msg, TRUE, add_message(chat_area, msg))
    /\ UNCHANGED <<area, app_vars>>

ChatScrollUp(n) ==
    /\ ChatCall("ChatArea::scroll_up", n, TRUE, ChatArea_scroll_up(chat_area, n))
    /\ UNCHANGED <<area, app_vars>>

ChatScrollDown(n) ==
    /\ \/ /\ ~ChatArea_scroll_down_overflows(chat_area, n)
          /\ ChatCall("ChatArea::scroll_down", n, TRUE,
                      ChatArea_scroll_down(chat_area, n))
       \/ /\ ChatArea_scroll_down_overflows(chat_area, n)
          /\ ChatCall("ChatArea::scroll_down", n, FALSE, chat_area)
       \/ /\ ChatArea_scroll_down_overflows(chat_area, n)
          /\ ChatCall("ChatArea::scroll_down", n, TRUE,
                      ChatArea_scroll_down(chat_area, n))
    /\ UNCHANGED <<area, app_vars>>

ChatRender(a) ==
    /\ ChatCall("ChatArea::render", a, TRUE, ChatArea_render(chat_area, a))
    /\ area' = IF visible_width_of(a) = 0 THEN area ELSE a
    /\ UNCHANGED app_vars

\* A KeyEvent: its kind, its code (with the char of a KeyCode::Char) and
\* its modifiers.
KeyEvent(kind, code, ch, modifiers) ==
    [kind |-> kind, code |-> code, ch |-> ch, modifiers |-> modifiers]
Press(code, modifiers) == KeyEvent("Press", code, NONE, modifiers)
Typed(ch, modifiers) == KeyEvent("Press", "Char", ch, modifiers)

\* An Event that is not an Event::Key.
MouseEvent == KeyEvent("Mouse", NONE, NONE, {})

\* The key events SpecMain delivers.
Keys ==
    {Press(code, {}) : code \in {"Enter", "PageUp", "PageDown", "Esc", "Backspace",
                                 "Left", "Right", "Up", "Down", "Tab"}}
        \cup {Press("Enter", {"SHIFT"}), Press("Esc", {"CONTROL"}),
              Typed("c", {}), Typed("c", {"CONTROL"}),
              KeyEvent("Release", "Char", "c", {}),
              KeyEvent("Release", "Esc", NONE, {"CONTROL"})}
\* The frame size it renders on: 12 columns by up to 4 rows of scrollback.
Sizes == {[width |-> 14, height |-> 8]}

\* The key events SpecCursor delivers, and the frame sizes it renders on.
CursorKeys ==
    {Press(code, {}) : code \in {"Enter", "Backspace", "Left", "Right", "Up", "Down"}}
        \cup {Press("Enter", {"SHIFT"}), Typed(EACUTE, {})}
CursorSizes == {[width |-> 5, height |-> 14], [width |-> 14, height |-> 14]}

AppCall(op, arg, ok, new, ret) ==
    /\ ~panicked
    /\ chat_area' = IF ok THEN new.chat_area ELSE chat_area
    /\ input_area' = IF ok THEN new.input_area ELSE input_area
    /\ should_quit' = IF ok THEN new.should_quit ELSE should_quit
    /\ cursor_pos' = IF ok THEN new.cursor_pos ELSE cursor_pos
    /\ panicked' = ~ok
    /\ last' = [op |-> op, arg |-> arg, pre |-> app, ret |-> ret]

\* app.render(frame) on a frame of the given size; the call returns the
\* position of the cursor inside the input panel, or NONE.
RenderCall(size) ==
    /\ AppCall("ChatApp::render", size, ChatApp_render_ok(app),
               ChatApp_render(app, size),
               IF ChatApp_render_ok(app)
               THEN relative_cursor_pos(InputArea_render(input_area))
               ELSE NONE)
    /\ area' = IF visible_width_of(size) = 0 \/ panicked' THEN area
               ELSE LET chunk == chunks(size, calculate_display_lines(input_area,
                                                                     size.width))[1]
                    IN  [width |-> chunk.width, height |-> chunk.height]

\* The loop of main: terminal.draw(|f| app.render(f)) ...
Draw(size) ==
    /\ pc = "draw"
    /\ RenderCall(size)
    /\ pc' = "read"

\* ... if let Event::Key(key) = event::read()? { app.on_key(key) } ...
Read(event) ==
    /\ pc = "read"
    /\ IF event = MouseEvent
       THEN AppCall("event", event, TRUE, app, NONE)
       ELSE \E ok \in on_key_returns(app, event) :
                AppCall("on_key", event, ok, on_key(app, event), NONE)
    /\ pc' = "check"
    /\ UNCHANGED area

\* The slip of polling the flag and going round the loop all the same.
Check_no_break ==
    /\ pc = "check"
    /\ AppCall("should_quit", NONE, TRUE, app, should_quit)
    /\ pc' = "draw"
    /\ UNCHANGED area
\* ... if app.should_quit() { break }
Check ==
    /\ pc = "check"
    /\ AppCall("should_quit", NONE, TRUE, app, should_quit)
    /\ pc' = IF should_quit THEN "done" ELSE "draw"
    /\ UNCHANGED area

\* terminal.draw(..)? and event::read()? return from main on an I/O error.
IoError ==
    /\ pc \in {"draw", "read"}
    /\ AppCall("io_error", NONE, TRUE, app, NONE)
    /\ pc' = "done"
    /\ UNCHANGED area

----------------------------------------------------------------------------
(* The specifications.                                                     *)

\* SpecEdit: the editing calls of InputArea on buffers of up to MaxLen chars.
NextEdit ==
    \/ \E ch \in Char : Len(input_area.buffer) < MaxLen /\ InsertChar(ch)
    \/ Len(input_area.buffer) < MaxLen /\ Newline
    \/ Backspace
    \/ CursorLeft
    \/ CursorRight
    \/ CursorUp
    \/ CursorDown
    \/ Submit

SpecEdit == Init /\ [][NextEdit]_vars

\* SpecView: editing, scrolling and rendering of InputArea on buffers of up
\* to MaxNl line breaks and MaxText other chars.
text_count(s) == Len(s) - count_nl(s)
InView(ia) ==
    /\ text_count(ia.buffer) <= MaxText
    /\ count_nl(ia.buffer) <= MaxNl
    /\ ia.offset <= MaxOffset \/ ia.offset = UsizeMax

NextView ==
    \/ \E ch \in ViewChar : InsertChar(ch) /\ InView(input_area')
    \/ Newline /\ InView(input_area')
    \/ Backspace
    \/ CursorLeft
    \/ CursorRight
    \/ CursorUp
    \/ CursorDown
    \/ Submit
    \/ \E n \in Deltas : InputScrollUp(n) /\ InView(input_area')
    \/ \E n \in Deltas : InputScrollDown(n) /\ InView(input_area')
    \/ InputRender

SpecView == Init /\ [][NextView]_vars

\* SpecChat: the calls of ChatArea with up to MaxMsgs messages.
NextChat ==
    \/ \E msg \in Msgs : Len(chat_area.messages) < MaxMsgs /\ AddMessage(msg)
    \/ \E n \in Deltas : ChatScrollUp(n)
    \/ \E n \in Deltas : ChatScrollDown(n)
    \/ \E a \in Areas : ChatRender(a)

SpecChat == Init /\ [][NextChat]_vars

\* SpecLines: calculate_display_lines applied to every buffer of up to
\* MaxLineLen chars, and to "hello world".
HelloWorld == <<"h", "e", "l", "l", "o", " ", "w", "o", "r", "l", "d">>
Buffers == UNION {[1..k -> Char] : k \in 0..MaxLineLen} \cup {HelloWorld}

InitLines ==
    /\ chat_area = ChatArea_new
    /\ \E b \in Buffers : input_area = [buffer |-> b, cursor |-> len(b), offset |-> 0]
    /\ area = [width |-> 0, height |-> 0]
    /\ should_quit = FALSE
    /\ cursor_pos = NONE
    /\ pc = "draw"
    /\ panicked = FALSE
    /\ last = [op |-> "new", arg |-> NONE, pre |-> NONE, ret |-> NONE]

NextLines == \E width \in Widths : CalculateDisplayLines(width)

SpecLines == InitLines /\ [][NextLines]_vars

\* SpecScroll: the scroll calls of both widgets, between the appends and
\* the renders of the scrollback.
NextScroll ==
    \/ \E msg \in Msgs : Len(chat_area.messages) < MaxScrollMsgs /\ AddMessage(msg)
    \/ \E n \in Deltas : ChatScrollUp(n)
    \/ \E n \in Deltas : ChatScrollDown(n)
    \/ \E a \in Areas : ChatRender(a)
    \/ \E n \in Deltas : InputScrollUp(n) /\ InView(input_area')
    \/ \E n \in Deltas : InputScrollDown(n) /\ InView(input_area')

SpecScroll == Init /\ [][NextScroll]_vars

\* The states of ChatApp SpecMain explores: buffers of up to MaxAppLen chars
\* and up to MaxAppMsgs messages.
InApp(a) ==
    /\ Len(a.input_area.buffer) <= MaxAppLen
    /\ Len(a.chat_area.messages) <= MaxAppMsgs

\* SpecCursor: the loop of main on buffers of up to MaxNl line breaks and
\* MaxText other chars, the scrollback left empty.
InCursor(a) ==
    /\ text_count(a.input_area.buffer) <= MaxText
    /\ count_nl(a.input_area.buffer) <= MaxNl
    /\ a.chat_area.messages = <<>>

NextCursor ==
    \/ \E size \in CursorSizes : Draw(size)
    \/ \E event \in CursorKeys : Read(event) /\ InCursor(app')
    \/ Check
    \/ IoError

SpecCursor == Init /\ [][NextCursor]_vars

\* SpecMain: the loop of main on the events of Keys, within InApp.
NextMain ==
    \/ \E size \in Sizes : Draw(size)
    \/ \E event \in Keys \cup {MouseEvent} : Read(event) /\ InApp(app')
    \/ Check
    \/ IoError

SpecMain == Init /\ [][NextMain]_vars

\* SpecGuard: calculate_display_lines on buffers of up to MaxGuardLen chars
\* and on "hello world", and the appends, scroll-ups and renders of a
\* scrollback of up to MaxScrollMsgs messages, on areas of every width
\* from 0.
NarrowAreas == {[width |-> 0, height |-> 3], [width |-> 1, height |-> 5]}

InitGuard ==
    /\ chat_area = ChatArea_new
    /\ \E b \in {c \in Buffers : Len(c) <= MaxGuardLen \/ c = HelloWorld} :
           input_area = [buffer |-> b, cursor |-> len(b), offset |-> 0]
    /\ area = [width |-> 0, height |-> 0]
    /\ should_quit = FALSE
    /\ cursor_pos = NONE
    /\ pc = "draw"
    /\ panicked = FALSE
    /\ last = [op |-> "new", arg |-> NONE, pre |-> NONE, ret |-> NONE]

NextGuard ==
    \/ \E width \in Widths : CalculateDisplayLines(width)
    \/ \E msg \in Msgs : Len(chat_area.messages) < MaxScrollMsgs /\ AddMessage(msg)
    \/ \E n \in Deltas : ChatScrollUp(n)
    \/ \E a \in Areas \cup NarrowAreas : ChatRender(a)

SpecGuard == InitGuard /\ [][NextGuard]_vars

----------------------------------------------------------------------------
(* The claims.                                                             *)

\* C1: after any sequence of insert_char, backspace, cursor_left,
\* cursor_right, cursor_up, cursor_down, newline and submit from new(), the
\* cursor is within 0..len(buffer), in bytes, and on a char boundary of the
\* buffer.
C1_CursorOnBoundary ==
    /\ 0 <= input_area.cursor
    /\ input_area.cursor <= len(input_area.buffer)
    /\ is_char_boundary(input_area.buffer, input_area.cursor)

\* A vertical move has put the cursor inside a buffer that mixes a 1-byte
\* char, a multi-byte char and a line break.
C1_Witness ==
    /\ last.op \in {"cursor_up", "cursor_down"}
    /\ last.pre.cursor # input_area.cursor
    /\ {"a", EACUTE, NL} \subseteq {input_area.buffer[i] : i \in 1..Len(input_area.buffer)}
    /\ 0 < input_area.cursor
    /\ input_area.cursor < len(input_area.buffer)

\* C2: insert_char(ch) followed by backspace() restores the InputArea as it
\* was before the insert, for every char and every reachable state: in the
\* state an insert has just produced, backspace does not panic and yields
\* the state the insert was made in.
C2_InsertThenBackspace ==
    last.op \in {"insert_char", "newline"} =>
        /\ backspace_ok(input_area)
        /\ backspace(input_area) = last.pre

\* A backspace has just undone the insert of a 2-byte char in the middle of
\* the buffer: the state it was made in is the one insert_char gives from
\* the state it led to.
C2_Witness ==
    /\ last.op = "backspace"
    /\ 0 < input_area.cursor
    /\ input_area.cursor < len(input_area.buffer)
    /\ last.pre = insert_char(input_area, EACUTE)

\* The bottom of a scrollback of total lines on a page of a's height:
\* max(0, total - visible capacity).
bottom(total, a) == Max(0, total - visible_height_of(a))

\* C3: the ChatArea offset is within [0, max_scroll], max_scroll = max(0,
\* total wrapped lines - visible capacity), after any scroll_up(n),
\* scroll_down(n) or add_message, whatever n, between any render passes.
C3_OffsetWithinMaxScroll ==
    (last.op \in {"ChatArea::scroll_up", "ChatArea::scroll_down", "add_message"}
     /\ ~panicked) =>
        /\ 0 <= chat_area.offset
        /\ chat_area.offset <= bottom(Len(chat_area.message_lines), area)

C5_AppendFollowsBottom ==
    [][/\ (last'.op = "add_message" /\ chat_area.auto_scroll)
              => chat_area'.auto_scroll
       /\ (last.op = "add_message" /\ last.pre.auto_scroll
             /\ last'.op = "ChatArea::render")
              => chat_area'.offset =
                     bottom(Len(chat_area'.message_lines), last'.arg)]_vars

\* C5, amended: the same, for a render on an area more than 2 columns
\* wide; the lines laid out are the wrap of the messages, the new one
\* included.
C5_AppendFollowsBottomWide ==
    [][/\ (last'.op = "add_message" /\ chat_area.auto_scroll)
              => chat_area'.auto_scroll
       /\ (last.op = "add_message" /\ last.pre.auto_scroll
             /\ last'.op = "ChatArea::render" /\ last'.arg.width > 2)
              => /\ chat_area'.message_lines =
                        wrapped_from(chat_area.messages, 0,
                                     visible_width_of(last'.arg))
                 /\ chat_area'.messages = Append(last.pre.messages, last.arg)
                 /\ chat_area'.offset =
                        bottom(Len(chat_area'.message_lines), last'.arg)]_vars

\* A render has just followed an append to a new bottom below the old one:
\* the view was at the bottom of the lines laid out before, and more lines
\* are laid out now.
C5_Witness ==
    /\ last.op = "ChatArea::render"
    /\ last.arg = area
    /\ last.pre.auto_scroll
    /\ Len(last.pre.messages) >= 2
    /\ Len(last.pre.message_lines) < Len(chat_area.message_lines)
    /\ last.pre.offset = bottom(Len(last.pre.message_lines), last.arg)
    /\ last.pre.offset > 0
    /\ chat_area.offset = bottom(Len(chat_area.message_lines), last.arg)
    /\ chat_area.offset > last.pre.offset

\* C6: scroll_up(n) leaves auto-follow disengaged, and scroll_down(n)
\* called with auto-follow disengaged re-engages it if and only if the
\* offset it leaves is max_scroll = max(0, total wrapped lines - visible
\* capacity) of the last render.
C6_ScrollDownReengagesAtBottom ==
    /\ (last.op = "ChatArea::scroll_up" /\ ~panicked) => ~chat_area.auto_scroll
    /\ (last.op = "ChatArea::scroll_down" /\ ~panicked /\ ~last.pre.auto_scroll) =>
           (chat_area.auto_scroll <=>
                chat_area.offset = bottom(Len(chat_area.message_lines), area))

\* C7, as claimed: after every ChatArea::render, whatever the area,
\* auto_scroll implies offset = max(0, total wrapped lines - visible height).
C7_FollowAtBottomAfterRender ==
    (last.op = "ChatArea::render" /\ chat_area.auto_scroll) =>
        chat_area.offset = bottom(Len(chat_area.message_lines), last.arg)

\* C7, amended: after every ChatArea::render on an area more than 2
\* columns wide, the lines laid out are the wrap of the messages at the
\* visible width and auto_scroll implies offset = max(0, total wrapped
\* lines - visible height).
C7_FollowAtBottomAfterWideRender ==
    (last.op = "ChatArea::render" /\ last.arg.width > 2) =>
        /\ chat_area.message_lines =
               wrapped_from(chat_area.messages, 0, visible_width_of(last.arg))
        /\ chat_area.auto_scroll =>
               chat_area.offset = bottom(Len(chat_area.message_lines), last.arg)

\* A render has just put a following view at a bottom other than 0, on
\* lines wrapped to more rows than there are messages.
C7_Witness ==
    /\ last.op = "ChatArea::render"
    /\ last.arg.width > 2
    /\ chat_area.auto_scroll
    /\ Len(chat_area.message_lines) > Len(chat_area.messages)
    /\ chat_area.offset > 0
    /\ chat_area.offset = bottom(Len(chat_area.message_lines), last.arg)

\* The number of lines InputArea::render displays the buffer on: one per
\* explicit line.
total_display_lines(ia) == count_nl(ia.buffer) + 1
\* The line holding the cursor: the number of line breaks before it.
cursor_line_of(ia) == count_nl(slice(ia.buffer, 0, ia.cursor))

\* C8: the InputArea offset satisfies 0 <= offset <= max(0, total display
\* lines - 10) in every reachable state.
C8_InputOffsetWithinRange ==
    /\ 0 <= input_area.offset
    /\ input_area.offset
           <= Max(0, total_display_lines(input_area) - MAX_DISPLAY_LINES)

\* C9: after every InputArea::render the cursor line is in the
\* window, offset <= cursor_line < offset + 10; a cursor line that was
\* above the window is the new offset, and one that was at or past offset +
\* 10 is the last visible line.
C9_CursorLineVisible ==
    (last.op = "InputArea::render" /\ ~panicked) =>
        LET cursor_line == cursor_line_of(input_area)
        IN  /\ input_area.offset <= cursor_line
            /\ cursor_line < input_area.offset + MAX_DISPLAY_LINES
            /\ cursor_line < last.pre.offset => input_area.offset = cursor_line
            /\ cursor_line >= last.pre.offset + MAX_DISPLAY_LINES =>
                   cursor_line = input_area.offset + MAX_DISPLAY_LINES - 1

\* The number of rows a line of L scalar values wraps to at a width:
\* max(1, ceil(L / width)).
rows_of(L, width) == Max(1, (L + width - 1) \div width)

RECURSIVE sum_rows(_, _)
sum_rows(lines, width) ==
    IF lines = <<>> THEN 0
    ELSE rows_of(Len(Head(lines)), width) + sum_rows(Tail(lines), width)

\* C10: for every buffer and every width > 4, calculate_display_lines(width)
\* is min(V, 10) + 2, V the sum over the explicit lines of max(1, ceil(L /
\* (width - 4))), L the line's length in scalar values.
C10_DisplayLinesByScalars ==
    (last.op = "calculate_display_lines" /\ last.arg > 4) =>
        last.ret = Min(sum_rows(split(input_area.buffer), last.arg - 4),
                       MAX_DISPLAY_LINES) + 2

\* C11: submit() returns exactly the buffer held at the call and leaves the
\* buffer empty with cursor 0.
C11_SubmitReturnsBuffer ==
    last.op = "submit" =>
        /\ ~panicked
        /\ last.ret = last.pre.buffer
        /\ input_area.buffer = <<>>
        /\ input_area.cursor = 0

\* A submit has just returned a text, a line break and a multi-byte char,
\* called with the cursor inside the buffer.
C11_Witness ==
    /\ last.op = "submit"
    /\ last.ret = <<"a", NL, EACUTE, "a">>
    /\ last.pre.cursor = 2
    /\ input_area = InputArea_new

\* The line and the column, in scalar values, of the cursor of ia: the line
\* breaks before the cursor, and the chars between the last of them and the
\* cursor.
line_of(ia) == count_nl(slice(ia.buffer, 0, ia.cursor))
col_of(ia) ==
    LET before == slice(ia.buffer, 0, ia.cursor)
        nls == {i \in 1..Len(before) : before[i] = NL}
    IN  Len(before) - (IF nls = {} THEN 0 ELSE CHOOSE i \in nls : \A j \in nls : j <= i)

\* C13: cursor_up from (line l, column c) with l > 0 leaves the cursor at
\* line l-1, column min(c, scalar count of line l-1), and is a no-op when
\* l = 0; cursor_down leaves it at line l+1, column min(c, scalar count of
\* line l+1), and is a no-op on the last line.
C13_VerticalMove ==
    LET l == line_of(last.pre)
        c == col_of(last.pre)
        lines == split(last.pre.buffer)
        moved_to(t) == /\ input_area.buffer = last.pre.buffer
                       /\ input_area.offset = last.pre.offset
                       /\ line_of(input_area) = t
                       /\ col_of(input_area) = Min(c, Len(lines[t + 1]))
    IN  /\ last.op = "cursor_up" =>
               /\ ~panicked
               /\ IF l > 0 THEN moved_to(l - 1) ELSE input_area = last.pre
        /\ last.op = "cursor_down" =>
               /\ ~panicked
               /\ IF l < Len(lines) - 1 THEN moved_to(l + 1)
                  ELSE input_area = last.pre

\* A cursor_up from the end of a line has put the cursor at the end of a
\* shorter line above that holds a multi-byte char: the column was clamped.
C13_Witness ==
    /\ last.op = "cursor_up"
    /\ line_of(last.pre) = 1
    /\ col_of(last.pre) = 2
    /\ split(input_area.buffer)[1] = <<EURO>>
    /\ line_of(input_area) = 0
    /\ col_of(input_area) = 1

\* C14: cursor_left moves the cursor back by the encoded length of the
\* scalar value before it and is a no-op at 0; cursor_right moves it forward
\* by the encoded length of the scalar value at it and is a no-op at the end
\* of the buffer; neither changes the buffer, and cursor_right after a
\* cursor_left from a cursor > 0 gives the state back.
C14_HorizontalMove ==
    LET b == last.pre.buffer
        k == chars_before(b, last.pre.cursor)
    IN  /\ last.op = "cursor_left" =>
               /\ ~panicked
               /\ input_area.buffer = b
               /\ input_area.offset = last.pre.offset
               /\ input_area.cursor =
                      IF last.pre.cursor = 0 THEN 0
                      ELSE last.pre.cursor - len_utf8(b[k])
               /\ last.pre.cursor > 0 => cursor_right(input_area) = last.pre
        /\ last.op = "cursor_right" =>
               /\ ~panicked
               /\ input_area.buffer = b
               /\ input_area.offset = last.pre.offset
               /\ input_area.cursor =
                      IF last.pre.cursor = len(b) THEN last.pre.cursor
                      ELSE last.pre.cursor + len_utf8(b[k + 1])

\* A cursor_right has just undone a cursor_left over a 3-byte char in the
\* middle of the buffer.
C14_Witness ==
    /\ last.op = "cursor_right"
    /\ input_area.cursor = last.pre.cursor + 3
    /\ input_area.cursor < len(input_area.buffer)
    /\ last.pre.cursor > 0
    /\ cursor_left(input_area) = last.pre

\* C12: ChatArea::scroll_down(n) and InputArea::scroll_down(n) complete
\* without overflow or panic for every n of the machine word and from every
\* reachable offset, and the offset never wraps around: the scrollback
\* offset is the sum clamped to the bound scroll_down uses, and the input
\* offset is not below the one it was called with.
C12_ScrollDownTotal ==
    /\ last.op \in {"ChatArea::scroll_down", "InputArea::scroll_down"} => ~panicked
    /\ (last.op = "ChatArea::scroll_down" /\ ~panicked) =>
           chat_area.offset =
               Min(last.pre.offset + last.arg,
                   saturating_sub(Len(chat_area.message_lines), 1))
    /\ (last.op = "InputArea::scroll_down" /\ ~panicked) =>
           /\ input_area.offset >= last.pre.offset
           /\ input_area.offset <= UsizeMax

\* Whether a is a prefix of b.
is_prefix(a, b) == Len(a) <= Len(b) /\ SubSeq(b, 1, Len(a)) = a

\* C19: a plain Enter press (no SHIFT) leaves the input buffer empty with
\* cursor 0 and offset 0; if the submitted text has a char that is not
\* white space, exactly two messages are appended, User with the untrimmed
\* text and then AI, otherwise none; no key event changes, removes or
\* reorders the messages already in the scrollback.
C19_PlainEnterSubmits ==
    (last.op = "on_key" /\ ~panicked) =>
        LET key == last.arg
            text == last.pre.input_area.buffer
            old == last.pre.chat_area.messages
            new == chat_area.messages
        IN  /\ is_prefix(old, new)
            /\ (key.kind = "Press" /\ key.code = "Enter"
                  /\ "SHIFT" \notin key.modifiers) =>
                   /\ input_area = [buffer |-> <<>>, cursor |-> 0, offset |-> 0]
                   /\ IF \E i \in 1..Len(text) : text[i] \notin {" ", NL}
                      THEN /\ Len(new) = Len(old) + 2
                           /\ new[Len(old) + 1] = [sender |-> User, content |-> text]
                           /\ new[Len(old) + 2].sender = AI
                      ELSE new = old

\* A plain Enter has just submitted a text that starts with a line break:
\* the User message holds it untrimmed, the AI reply follows it.
C19_Witness ==
    /\ last.op = "on_key"
    /\ last.arg = Press("Enter", {})
    /\ last.pre.input_area.buffer = <<NL, "c">>
    /\ chat_area.messages = <<[sender |-> User, content |-> <<NL, "c">>],
                              [sender |-> AI, content |-> Reply]>>
    /\ input_area = InputArea_new

\* C20, as claimed: a key event that is not a Press changes nothing; a
\* cursor-move or character key changes only the buffer and the cursor of
\* the input area; PageUp and PageDown change only the offset and
\* auto_scroll of the scrollback.
C20_OneWidgetPerKey ==
    (last.op = "on_key" /\ ~panicked) =>
        LET key == last.arg
            pre == last.pre
        IN  /\ key.kind # "Press" => app = pre
            /\ (key.kind = "Press"
                  /\ key.code \in {"Left", "Right", "Up", "Down", "Char"}) =>
                   /\ chat_area = pre.chat_area
                   /\ input_area.offset = pre.input_area.offset
                   /\ should_quit = pre.should_quit
                   /\ cursor_pos = pre.cursor_pos
            /\ (key.kind = "Press" /\ key.code \in {"PageUp", "PageDown"}) =>
                   /\ input_area = pre.input_area
                   /\ chat_area.messages = pre.chat_area.messages
                   /\ chat_area.message_lines = pre.chat_area.message_lines
                   /\ should_quit = pre.should_quit
                   /\ cursor_pos = pre.cursor_pos

\* C20, amended: the same, the character key 'c' with the CONTROL modifier
\* apart, which changes the quit flag and nothing of the input area.
C20_OneWidgetPerKeyButCtrlC ==
    (last.op = "on_key" /\ ~panicked) =>
        LET key == last.arg
            pre == last.pre
        IN  /\ key.kind # "Press" => app = pre
            /\ (key.kind = "Press"
                  /\ key.code \in {"Left", "Right", "Up", "Down", "Char"}
                  /\ ~(key.code = "Char" /\ key.ch = "c"
                         /\ "CONTROL" \in key.modifiers)) =>
                   /\ chat_area = pre.chat_area
                   /\ input_area.offset = pre.input_area.offset
                   /\ should_quit = pre.should_quit
                   /\ cursor_pos = pre.cursor_pos
            /\ (key.kind = "Press" /\ key.code \in {"PageUp", "PageDown"}) =>
                   /\ input_area = pre.input_area
                   /\ chat_area.messages = pre.chat_area.messages
                   /\ chat_area.message_lines = pre.chat_area.message_lines
                   /\ should_quit = pre.should_quit
                   /\ cursor_pos = pre.cursor_pos

\* A PageUp press has just moved a scrollback that followed the bottom of
\* four laid-out lines or more up, with text in the input buffer.
C20_Witness ==
    /\ last.op = "on_key"
    /\ last.arg = Press("PageUp", {})
    /\ last.pre.chat_area.auto_scroll
    /\ ~chat_area.auto_scroll
    /\ chat_area.offset < last.pre.chat_area.offset
    /\ input_area.buffer # <<>>

\* C15: after every ChatApp::render, whatever key events came before it,
\* the cursor position is present (get_cursor_pos is Some), and the line of
\* the cursor is inside the window of the input area that was drawn.
C15_CursorPosPresent ==
    last.op = "ChatApp::render" =>
        /\ ~panicked
        /\ cursor_pos # NONE
        /\ last.ret # NONE
        /\ input_area.offset <= line_of(input_area)
        /\ line_of(input_area) < input_area.offset + MAX_DISPLAY_LINES

\* A render has just scrolled the input area down to a cursor on the
\* eleventh line, a multi-byte char on the first, and placed the cursor on
\* the last of the ten rows of the panel.
C15_Witness ==
    /\ last.op = "ChatApp::render"
    /\ last.pre.input_area.offset = 0
    /\ input_area.offset = 1
    /\ line_of(input_area) = MAX_DISPLAY_LINES
    /\ input_area.buffer[1] = EACUTE
    /\ last.ret = <<MAX_DISPLAY_LINES - 1, 2>>
    /\ cursor_pos = <<3, last.arg.height - 2>>

\* C16: after ChatApp::render at a terminal width w > 4, the row of the
\* cursor relative to the input panel is less than the panel's content
\* height, calculate_display_lines(w) - 2, and its column is less than the
\* panel's inner width, w - 2.
C16_CursorInsidePanel ==
    (last.op = "ChatApp::render" /\ ~panicked /\ last.arg.width > 4
       /\ last.ret # NONE) =>
        /\ last.ret[1] < calculate_display_lines(input_area, last.arg.width) - 2
        /\ last.ret[2] < last.arg.width - 2

\* C17: calculate_display_lines(width) returns exactly 2 for every buffer
\* when width <= 4, and ChatArea::render on an area of width <= 2 returns
\* without changing offset, auto_scroll or the cached line list.
C17_ZeroWidthGuards ==
    /\ (last.op = "calculate_display_lines" /\ last.arg <= 4) =>
           /\ ~panicked
           /\ last.ret = 2
           /\ input_area = last.pre
    /\ (last.op = "ChatArea::render" /\ last.arg.width <= 2) =>
           /\ ~panicked
           /\ chat_area.offset = last.pre.offset
           /\ chat_area.auto_scroll = last.pre.auto_scroll
           /\ chat_area.message_lines = last.pre.message_lines
           /\ chat_area.messages = last.pre.messages

\* A render on an area one column wide has just left alone a scrollback
\* that was scrolled up from the bottom of its laid-out lines, a message
\* appended since and auto-follow engaged again.
C17_Witness ==
    /\ last.op = "ChatArea::render"
    /\ last.arg.width = 1
    /\ chat_area.auto_scroll
    /\ Len(chat_area.messages) = 2
    /\ Len(chat_area.message_lines) > 0
    /\ chat_area.offset < bottom(Len(chat_area.message_lines), area)
    /\ input_area.buffer # <<>>

\* C18: the quit flag starts false; it becomes true only in on_key, on a
\* Press of Esc or of the char 'c' that carries CONTROL, and that event
\* changes neither the input area nor the scrollback; it is never reset; and
\* once it is true the loop of main processes no further event: the poll
\* that follows ends the loop.
C18_QuitFlag ==
    /\ ~should_quit
    /\ [][/\ (~should_quit /\ should_quit') =>
                 /\ last'.op = "on_key"
                 /\ last'.arg.kind = "Press"
                 /\ \/ last'.arg.code = "Esc"
                    \/ last'.arg.code = "Char" /\ last'.arg.ch = "c"
                 /\ "CONTROL" \in last'.arg.modifiers
                 /\ input_area' = input_area
                 /\ chat_area' = chat_area
          /\ should_quit => should_quit'
          /\ should_quit => last'.op \notin {"on_key", "event"}
          /\ (should_quit /\ pc = "check") => pc' = "done"]_vars

\* The loop of main has just ended on the quit flag, text typed and
\* messages in the scrollback.
C18_Witness ==
    /\ pc = "done"
    /\ should_quit
    /\ last.op = "should_quit"
    /\ last.ret = TRUE
    /\ input_area.buffer # <<>>
    /\ chat_area.messages # <<>>

====
